---- MODULE Spec2Model ----
(***************************************************************************)
(* The SQLModel persistence adapter of fastapi-users: the user database    *)
(* adapter (SQLModelUserDatabase), its OAuth account operations and the    *)
(* access token adapter (BaseSQLModelAccessTokenDatabase), over the       *)
(* tables "user", "oauthaccount", "accesstoken" and "accessrefreshtoken"   *)
(* of the backing store.                                                   *)
(*                                                                         *)
(* Every adapter call is one action.  A call adds its objects to the       *)
(* session, commits (the flush checks the tables' constraints; a failing   *)
(* flush rolls the transaction back and leaves the session's transaction   *)
(* inactive until the session is rolled back, which no adapter does) and   *)
(* refreshes what it returns.  The variable "last" records the call, its   *)
(* arguments and what it returned or raised.                               *)
(***************************************************************************)
EXTENDS Integers, Sequences, FiniteSets, TLC

VARIABLES user, oauthaccount, accesstoken, accessrefreshtoken,
          oauth_account_model, dialect, transaction, session_new, task, last

vars == <<user, oauthaccount, accesstoken, accessrefreshtoken,
          oauth_account_model, dialect, transaction, session_new, task, last>>
tables == <<user, oauthaccount, accesstoken, accessrefreshtoken>>

-----------------------------------------------------------------------------
(* Bounds of the model *)

MaxUsers == 2
MaxOAuthAccounts == 2
MaxTime == 1

UserIds == 1..MaxUsers
OAuthIds == 1..MaxOAuthAccounts
Times == 0..MaxTime

\* lancelot@..., Lancelot@..., galahad@... of the tests, as character sequences
Emails == {<<"l", "a">>, <<"L", "a">>, <<"g", "a">>}
Passwords == {"guinevere"}
FirstNames == {"Lancelot"}
OAuthNames == {"service1", "service2"}
AccountIds == {"user_oauth1", "user_oauth2"}
Tokens == {"TOKEN", "TOKEN2"}
Tasks == {1, 2}
RefreshTokens == {"REFRESH", "REFRESH2"}

-----------------------------------------------------------------------------
(* Values *)

\* func.lower of the backing store, on one character
LowerChar(c) ==
    CASE c = "L" -> "l"
      [] c = "G" -> "g"
      [] c = "A" -> "a"
      [] OTHER -> c

\* func.lower on a string
lower(s) == [i \in DOMAIN s |-> LowerChar(s[i])]

\* None in the place of an email and of a hashed password: NULL in the column
NoneEmail == <<"None">>
NonePassword == "None"
NoneFirstName == "None"

\* What a call returns or raises
NoneResult == [kind |-> "None"]
UserResult(u, accounts) == [kind |-> "user", user |-> u, oauth_accounts |-> accounts]
TokenResult(t) == [kind |-> "access_token", access_token |-> t]
Raise(e) == [kind |-> e]

-----------------------------------------------------------------------------
(* The tables and their constraints *)

\* The rows of the "user" table a create call builds: absent columns take
\* their defaults, and a column without default stays NULL.
HasField(d, f) == f \in DOMAIN d

UserRows ==
    [id : UserIds, email : Emails, hashed_password : Passwords,
     is_active : BOOLEAN, is_superuser : BOOLEAN,
     first_name : FirstNames \cup {NoneFirstName}]

\* The rows of the "oauthaccount" and "accesstoken" tables
OAuthAccountRows ==
    [id : OAuthIds, user_id : UserIds, oauth_name : OAuthNames,
     account_id : AccountIds]

AccessTokenRows == [token : Tokens, created_at : Times, user_id : UserIds]

AccessRefreshTokenRows ==
    [token : Tokens, created_at : Times, user_id : UserIds,
     refresh_token : RefreshTokens]

\* The state: the three tables of the backing store, the OAuth table the
\* adapter was built with, and the dialect of the backing store
TypeOK ==
    /\ user \subseteq UserRows
    /\ oauthaccount \subseteq OAuthAccountRows
    /\ accesstoken \subseteq AccessTokenRows
    /\ accessrefreshtoken \subseteq AccessRefreshTokenRows
    /\ oauth_account_model \in {"None", "OAuthAccount"}
    /\ dialect \in {"sqlite", "postgresql"}
    /\ transaction \in {"ACTIVE", "DEACTIVE"}
    /\ \A o \in session_new : o.id \in UserIds
    /\ DOMAIN task = Tasks

\* (mutant) the columns of "user" nullable
UserNotNullViolation_Nullable(d) == FALSE

\* NOT NULL columns of "user": a create_dict without them, or with None for
\* them, inserts NULL
UserNotNullViolation(d) ==
    \/ ~HasField(d, "email") \/ d.email = NoneEmail
    \/ ~HasField(d, "hashed_password") \/ d.hashed_password = NonePassword

\* primary key of "user"
UserPrimaryKeyViolation(rows, id) == \E r \in rows : r.id = id

\* (mutant) the email column without its unique index
UserEmailUniqueViolation_NoIndex(rows, email) == FALSE

\* unique index of the email column: compared as stored
UserEmailUniqueViolation(rows, email) == \E r \in rows : r.email = email

\* foreign key accesstoken.user_id -> user.id: enforced by the backing store
\* only when it checks foreign keys
ForeignKeysEnforced == dialect = "postgresql"

\* (mutant) the OAuth table never checked
OAuthTableNotSet_Unchecked == FALSE

\* "if self.oauth_account_model is None": the adapter was built without
\* an OAuth table
OAuthTableNotSet == oauth_account_model = "None"

-----------------------------------------------------------------------------
(* The session *)

\* the session's transaction was rolled back by a flush that failed: every
\* statement and every commit raises PendingRollbackError
Deactive == transaction = "DEACTIVE"

PendingRollback == Raise("PendingRollbackError")

\* the session's transaction once the call is over: a commit that raised
\* IntegrityError leaves it inactive, and no adapter call catches the error
\* or calls session.rollback()
TransactionAfter ==
    transaction' = IF last'.result.kind = "IntegrityError" THEN "DEACTIVE"
                   ELSE transaction

\* a call that is awaited to its end while no other task uses the session:
\* the objects it adds to the session are flushed by its commit, so that
\* session.new is empty when it returns as it was when it began
Awaited == UNCHANGED <<session_new, task>>


\* the OAuth accounts of a user (the oauth_accounts relationship)
oauth_accounts(uid) == {a \in oauthaccount : a.user_id = uid}

\* the place of an account in a user's oauth_accounts list, which is loaded
\* in the order of the rows: 0 for the first
ListIndex(a, accounts) == Cardinality({b \in accounts : b.id < a.id})

\* session.get(user_model, id)
SessionGet(id) ==
    IF \E r \in user : r.id = id
    THEN UserResult(CHOOSE r \in user : r.id = id, oauth_accounts(id))
    ELSE NoneResult

-----------------------------------------------------------------------------
(* SQLModelUserDatabase *)

\* __init__(session, user_model, oauth_account_model): an adapter over the
\* same session, with or without an OAuth table
Construct(model) ==
    /\ oauth_account_model' = model
    /\ last' = [op |-> "__init__", arg |-> [oauth_account_model |-> model],
                result |-> NoneResult]
    /\ UNCHANGED <<tables, dialect, transaction>>
    /\ Awaited

\* get(id)
get(id) ==
    /\ last' = [op |-> "get", arg |-> [id |-> id],
                result |-> IF Deactive THEN PendingRollback ELSE SessionGet(id)]
    /\ UNCHANGED <<tables, oauth_account_model, dialect>>
    /\ TransactionAfter
    /\ Awaited

\* The create_dict arguments of create: the fields of the tests, with the
\* id given or left to its default, with a required field left out, and with
\* None for the email
UserCreateDicts ==
    [email : Emails, hashed_password : Passwords]
        \cup [id : UserIds, email : Emails, hashed_password : Passwords]
        \cup [hashed_password : Passwords]
        \cup [email : Emails]
        \cup [email : {NoneEmail}, hashed_password : Passwords]

\* The update_dict arguments of update
UserUpdateDicts == [email : Emails] \cup [is_superuser : BOOLEAN]

\* (mutant) is_active left without its default of True
NewUser_Inactive(d, id) ==
    [id |-> id,
     email |-> IF HasField(d, "email") THEN d.email ELSE NoneEmail,
     hashed_password |-> IF HasField(d, "hashed_password") THEN d.hashed_password
                         ELSE NonePassword,
     is_active |-> IF HasField(d, "is_active") THEN d.is_active ELSE FALSE,
     is_superuser |-> IF HasField(d, "is_superuser") THEN d.is_superuser ELSE FALSE,
     first_name |-> IF HasField(d, "first_name") THEN d.first_name
                    ELSE NoneFirstName]

\* user_model(**create_dict), once its id is known: is_active defaults to
\* True and is_superuser to False; first_name is the field the user model of
\* the tests adds, None when not given
NewUser(d, id) ==
    [id |-> id,
     email |-> IF HasField(d, "email") THEN d.email ELSE NoneEmail,
     hashed_password |-> IF HasField(d, "hashed_password") THEN d.hashed_password
                         ELSE NonePassword,
     is_active |-> IF HasField(d, "is_active") THEN d.is_active ELSE TRUE,
     is_superuser |-> IF HasField(d, "is_superuser") THEN d.is_superuser ELSE FALSE,
     first_name |-> IF HasField(d, "first_name") THEN d.first_name
                    ELSE NoneFirstName]

\* the flush of an INSERT into "user" fails on a NULL in a NOT NULL column or
\* on the unique index of email (which NULLs do not violate)
UserInsertViolation(d) ==
    \/ UserNotNullViolation(d)
    \/ /\ HasField(d, "email")
       /\ d.email # NoneEmail
       /\ UserEmailUniqueViolation(user, d.email)

\* (mutant) the emails compared as given, without func.lower
EmailMatches_CaseSensitive(email) == {r \in user : r.email = email}

\* the rows get_by_email selects:
\* where(func.lower(user_model.email) == func.lower(email))
EmailMatches(email) == {r \in user : lower(r.email) = lower(email)}

\* get_by_email(email): results.first() is any of the selected rows, the
\* statement giving no order
get_by_email(email) ==
    /\ IF Deactive
       THEN last' = [op |-> "get_by_email", arg |-> [email |-> email],
                     result |-> PendingRollback]
       ELSE
       \/ \E r \in EmailMatches(email) :
              last' = [op |-> "get_by_email", arg |-> [email |-> email],
                       result |-> UserResult(r, oauth_accounts(r.id))]
       \/ /\ EmailMatches(email) = {}
          /\ last' = [op |-> "get_by_email", arg |-> [email |-> email],
                      result |-> NoneResult]
    /\ UNCHANGED <<tables, oauth_account_model, dialect>>
    /\ TransactionAfter
    /\ Awaited

\* create(create_dict): add, commit, refresh
create(d) ==
    /\ IF Deactive
       THEN /\ last' = [op |-> "create", arg |-> d, result |-> PendingRollback]
            /\ UNCHANGED user
       ELSE IF UserInsertViolation(d)
               \/ (HasField(d, "id") /\ UserPrimaryKeyViolation(user, d.id))
       THEN /\ last' = [op |-> "create", arg |-> d, result |-> Raise("IntegrityError")]
            /\ UNCHANGED user
       ELSE \E id \in (IF HasField(d, "id") THEN {d.id}
                       ELSE {i \in UserIds : ~UserPrimaryKeyViolation(user, i)}) :
                /\ user' = user \cup {NewUser(d, id)}
                /\ last' = [op |-> "create", arg |-> d,
                            result |-> UserResult(NewUser(d, id), {})]
    /\ UNCHANGED <<oauthaccount, accesstoken, accessrefreshtoken,
                 oauth_account_model, dialect>>
    /\ TransactionAfter
    /\ Awaited

\* (mutant) the setattr loop left out
UpdatedUser_Unset(r, d) == r

\* the row of a persisted user with the fields of update_dict set
UpdatedUser(r, d) ==
    [id |-> r.id,
     email |-> IF HasField(d, "email") THEN d.email ELSE r.email,
     hashed_password |-> r.hashed_password,
     is_active |-> r.is_active,
     is_superuser |-> IF HasField(d, "is_superuser") THEN d.is_superuser
                      ELSE r.is_superuser,
     first_name |-> r.first_name]

\* update(user, update_dict): setattr, add, commit, refresh.  The user is
\* named by its id; adding an instance whose row was deleted is refused by
\* the session.
update(uid, d) ==
    /\ IF ~\E r \in user : r.id = uid
       THEN /\ last' = [op |-> "update", arg |-> [id |-> uid, update_dict |-> d],
                        result |-> Raise("InvalidRequestError")]
            /\ UNCHANGED user
       ELSE IF Deactive
       THEN /\ last' = [op |-> "update", arg |-> [id |-> uid, update_dict |-> d],
                        result |-> PendingRollback]
            /\ UNCHANGED user
       ELSE LET r == CHOOSE x \in user : x.id = uid
                n == UpdatedUser(r, d)
            IN  IF UserEmailUniqueViolation(user \ {r}, n.email)
                THEN /\ last' = [op |-> "update",
                                 arg |-> [id |-> uid, update_dict |-> d],
                                 result |-> Raise("IntegrityError")]
                     /\ UNCHANGED user
                ELSE /\ user' = (user \ {r}) \cup {n}
                     /\ last' = [op |-> "update",
                                 arg |-> [id |-> uid, update_dict |-> d],
                                 result |-> UserResult(n, oauth_accounts(uid))]
    /\ UNCHANGED <<oauthaccount, accesstoken, accessrefreshtoken,
                 oauth_account_model, dialect>>
    /\ TransactionAfter
    /\ Awaited

\* (mutant) the delete never committed
UsersWithout_Kept(uid) == user

\* the "user" table once session.delete(user) is committed
UsersWithout(uid) == {r \in user : r.id # uid}

\* the rows session.delete(user) removes with the user: the relationship
\* oauth_accounts cascades the delete to the user's OAuth accounts
DeleteCascade(uid) == oauth_accounts(uid)

\* the flush of the DELETE fails when the backing store enforces foreign
\* keys and an access token still references the user
UserDeleteViolation(uid) ==
    ForeignKeysEnforced
        /\ \E t \in accesstoken \cup accessrefreshtoken : t.user_id = uid

\* delete(user), of a persisted user: delete, commit
delete(uid) ==
    /\ \E r \in user : r.id = uid
    /\ IF Deactive
       THEN /\ last' = [op |-> "delete", arg |-> [id |-> uid],
                        result |-> PendingRollback]
            /\ UNCHANGED <<user, oauthaccount>>
       ELSE IF UserDeleteViolation(uid)
       THEN /\ last' = [op |-> "delete", arg |-> [id |-> uid],
                        result |-> Raise("IntegrityError")]
            /\ UNCHANGED <<user, oauthaccount>>
       ELSE /\ user' = UsersWithout(uid)
            /\ oauthaccount' = oauthaccount \ DeleteCascade(uid)
            /\ last' = [op |-> "delete", arg |-> [id |-> uid], result |-> NoneResult]
    /\ UNCHANGED <<accesstoken, accessrefreshtoken,
                 oauth_account_model, dialect>>
    /\ TransactionAfter
    /\ Awaited

\* The create_dict arguments of add_oauth_account, and the update_dict
\* arguments of update_oauth_account
OAuthCreateDicts == [oauth_name : OAuthNames, account_id : AccountIds]

OAuthUpdateDicts == [account_id : AccountIds] \cup [oauth_name : OAuthNames]

\* (mutant) the account id left out of the statement
OAuthMatches_NameOnly(oauth, account_id) ==
    {a \in oauthaccount : a.oauth_name = oauth}

\* the rows get_by_oauth_account selects:
\* where(oauth_name == oauth).where(account_id == account_id)
OAuthMatches(oauth, account_id) ==
    {a \in oauthaccount : a.oauth_name = oauth /\ a.account_id = account_id}

\* get_by_oauth_account(oauth, account_id): results.first() is any of the
\* selected rows; the user is the row's user relationship
get_by_oauth_account(oauth, account_id) ==
    /\ IF OAuthTableNotSet
       THEN last' = [op |-> "get_by_oauth_account",
                     arg |-> [oauth |-> oauth, account_id |-> account_id],
                     result |-> Raise("NotImplementedError")]
       ELSE IF Deactive
       THEN last' = [op |-> "get_by_oauth_account",
                     arg |-> [oauth |-> oauth, account_id |-> account_id],
                     result |-> PendingRollback]
       ELSE \/ \E a \in OAuthMatches(oauth, account_id) :
                  last' = [op |-> "get_by_oauth_account",
                           arg |-> [oauth |-> oauth, account_id |-> account_id],
                           result |-> SessionGet(a.user_id)]
            \/ /\ OAuthMatches(oauth, account_id) = {}
               /\ last' = [op |-> "get_by_oauth_account",
                           arg |-> [oauth |-> oauth, account_id |-> account_id],
                           result |-> NoneResult]
    /\ UNCHANGED <<tables, oauth_account_model, dialect>>
    /\ TransactionAfter
    /\ Awaited

\* oauth_account_model(**create_dict) appended to user.oauth_accounts: the
\* flush sets its user_id to the id of the user
NewOAuthAccount(d, id, uid) ==
    [id |-> id, user_id |-> uid, oauth_name |-> d.oauth_name,
     account_id |-> d.account_id]

\* (mutant) a new OAuth account stored before the stored ones
FreshOAuthIds_Before ==
    {i \in {-1, 0} : \A a \in oauthaccount : i = a.id - 1}

\* the id uuid4 gives a new OAuth account: one no stored account has.  The
\* ids are numbered in the order of the inserts, so that the order of the ids
\* is the order of the rows in the table; no account is added once the last
\* of OAuthIds is given.
FreshOAuthIds ==
    {i \in OAuthIds : /\ \A a \in oauthaccount : a.id < i
                      /\ \A j \in OAuthIds : (\A a \in oauthaccount : a.id < j) => i <= j}

\* add_oauth_account(user, create_dict): append, add, commit
add_oauth_account(uid, d) ==
    /\ IF OAuthTableNotSet
       THEN /\ last' = [op |-> "add_oauth_account",
                        arg |-> [id |-> uid, create_dict |-> d],
                        result |-> Raise("NotImplementedError")]
            /\ UNCHANGED oauthaccount
       ELSE IF ~\E r \in user : r.id = uid
       THEN /\ last' = [op |-> "add_oauth_account",
                        arg |-> [id |-> uid, create_dict |-> d],
                        result |-> Raise("InvalidRequestError")]
            /\ UNCHANGED oauthaccount
       ELSE IF Deactive
       THEN /\ last' = [op |-> "add_oauth_account",
                        arg |-> [id |-> uid, create_dict |-> d],
                        result |-> PendingRollback]
            /\ UNCHANGED oauthaccount
       ELSE \E id \in FreshOAuthIds :
                /\ oauthaccount' = oauthaccount \cup {NewOAuthAccount(d, id, uid)}
                /\ last' = [op |-> "add_oauth_account",
                            arg |-> [id |-> uid, create_dict |-> d],
                            result |-> UserResult(CHOOSE r \in user : r.id = uid,
                                                  oauth_accounts(uid)
                                                      \cup {NewOAuthAccount(d, id, uid)})]
    /\ UNCHANGED <<user, accesstoken, accessrefreshtoken,
                 oauth_account_model, dialect>>
    /\ TransactionAfter
    /\ Awaited

\* (mutant) the setattr loop left out
UpdatedOAuthAccount_Unset(a, d) == a

\* the row of a persisted OAuth account with the fields of update_dict set
UpdatedOAuthAccount(a, d) ==
    [id |-> a.id, user_id |-> a.user_id,
     oauth_name |-> IF HasField(d, "oauth_name") THEN d.oauth_name ELSE a.oauth_name,
     account_id |-> IF HasField(d, "account_id") THEN d.account_id ELSE a.account_id]

\* update_oauth_account(user, oauth_account, update_dict): setattr, add,
\* commit; the user passed in is returned.  The user is a persisted user and
\* the account is named by its id.
update_oauth_account(uid, aid, d) ==
    /\ IF OAuthTableNotSet
       THEN /\ last' = [op |-> "update_oauth_account",
                        arg |-> [id |-> uid, oauth_account |-> aid, update_dict |-> d],
                        result |-> Raise("NotImplementedError")]
            /\ UNCHANGED oauthaccount
       ELSE IF ~\E a \in oauthaccount : a.id = aid
       THEN /\ last' = [op |-> "update_oauth_account",
                        arg |-> [id |-> uid, oauth_account |-> aid, update_dict |-> d],
                        result |-> Raise("InvalidRequestError")]
            /\ UNCHANGED oauthaccount
       ELSE IF Deactive
       THEN /\ last' = [op |-> "update_oauth_account",
                        arg |-> [id |-> uid, oauth_account |-> aid, update_dict |-> d],
                        result |-> PendingRollback]
            /\ UNCHANGED oauthaccount
       ELSE LET a == CHOOSE x \in oauthaccount : x.id = aid
                n == UpdatedOAuthAccount(a, d)
                after == (oauthaccount \ {a}) \cup {n}
            IN  /\ \E r \in user : r.id = uid
                /\ oauthaccount' = after
                /\ last' = [op |-> "update_oauth_account",
                            arg |-> [id |-> uid, oauth_account |-> aid,
                                     update_dict |-> d],
                            result |-> UserResult(CHOOSE r \in user : r.id = uid,
                                                  {x \in after : x.user_id = uid})]
    /\ UNCHANGED <<user, accesstoken, accessrefreshtoken,
                 oauth_account_model, dialect>>
    /\ TransactionAfter
    /\ Awaited

-----------------------------------------------------------------------------
(* BaseSQLModelAccessTokenDatabase *)

\* The arguments of get_by_token: max_age given or left to its default None
GetByTokenArgs == [token : Tokens] \cup [token : Tokens, max_age : Times]

\* The create_dict arguments of create: created_at given or left to its
\* default; and the update_dict arguments of update
AccessTokenCreateDicts ==
    [token : Tokens, user_id : UserIds]
        \cup [token : Tokens, user_id : UserIds, created_at : Times]

AccessTokenUpdateDicts == [created_at : Times]

\* (mutant) the age comparison turned round
TokenMatches_Reversed(a) ==
    {t \in accesstoken :
        /\ t.token = a.token
        /\ HasField(a, "max_age") => t.created_at <= a.max_age}

\* the rows get_by_token selects: where(token == token), and with a max_age
\* where(created_at >= max_age)
TokenMatches(a) ==
    {t \in accesstoken :
        /\ t.token = a.token
        /\ HasField(a, "max_age") => t.created_at >= a.max_age}

\* get_by_token(token, max_age)
get_by_token(a) ==
    /\ IF Deactive
       THEN last' = [op |-> "get_by_token", arg |-> a, result |-> PendingRollback]
       ELSE
       \/ \E t \in TokenMatches(a) :
              last' = [op |-> "get_by_token", arg |-> a, result |-> TokenResult(t)]
       \/ /\ TokenMatches(a) = {}
          /\ last' = [op |-> "get_by_token", arg |-> a, result |-> NoneResult]
    /\ UNCHANGED <<tables, oauth_account_model, dialect>>
    /\ TransactionAfter
    /\ Awaited

\* access_token_model(**create_dict): created_at defaults to now_utc()
NewAccessToken(d, now) ==
    [token |-> d.token, user_id |-> d.user_id,
     created_at |-> IF HasField(d, "created_at") THEN d.created_at ELSE now]

\* (mutant) the token column without its primary key
TokenPrimaryKeyViolation_NoKey(rows, token) == FALSE

\* primary key of "accesstoken"
TokenPrimaryKeyViolation(rows, token) == \E t \in rows : t.token = token

\* foreign key accesstoken.user_id -> user.id, where the store enforces it
TokenForeignKeyViolation(uid) ==
    ForeignKeysEnforced /\ ~\E r \in user : r.id = uid

\* create(create_dict) of an access token: add, commit, refresh
access_token_create(d) ==
    /\ IF Deactive
       THEN /\ last' = [op |-> "access_token.create", arg |-> d,
                        result |-> PendingRollback]
            /\ UNCHANGED accesstoken
       ELSE IF TokenPrimaryKeyViolation(accesstoken, d.token)
          \/ TokenForeignKeyViolation(d.user_id)
       THEN /\ last' = [op |-> "access_token.create", arg |-> d,
                        result |-> Raise("IntegrityError")]
            /\ UNCHANGED accesstoken
       ELSE \E now \in Times :
                /\ accesstoken' = accesstoken \cup {NewAccessToken(d, now)}
                /\ last' = [op |-> "access_token.create", arg |-> d,
                            result |-> TokenResult(NewAccessToken(d, now))]
    /\ UNCHANGED <<user, oauthaccount, accessrefreshtoken,
                 oauth_account_model, dialect>>
    /\ TransactionAfter
    /\ Awaited

\* the row of a persisted access token with the fields of update_dict set
UpdatedAccessToken(t, d) ==
    [token |-> t.token, user_id |-> t.user_id,
     created_at |-> IF HasField(d, "created_at") THEN d.created_at ELSE t.created_at]

\* update(access_token, update_dict): setattr, add, commit, refresh.  The
\* access token is named by its token.
access_token_update(token, d) ==
    /\ IF ~\E t \in accesstoken : t.token = token
       THEN /\ last' = [op |-> "access_token.update",
                        arg |-> [token |-> token, update_dict |-> d],
                        result |-> Raise("InvalidRequestError")]
            /\ UNCHANGED accesstoken
       ELSE IF Deactive
       THEN /\ last' = [op |-> "access_token.update",
                        arg |-> [token |-> token, update_dict |-> d],
                        result |-> PendingRollback]
            /\ UNCHANGED accesstoken
       ELSE LET t == CHOOSE x \in accesstoken : x.token = token
                n == UpdatedAccessToken(t, d)
            IN  /\ accesstoken' = (accesstoken \ {t}) \cup {n}
                /\ last' = [op |-> "access_token.update",
                            arg |-> [token |-> token, update_dict |-> d],
                            result |-> TokenResult(n)]
    /\ UNCHANGED <<user, oauthaccount, accessrefreshtoken,
                 oauth_account_model, dialect>>
    /\ TransactionAfter
    /\ Awaited

\* the "accesstoken" table once session.delete(access_token) is committed
AccessTokensWithout(token) == {t \in accesstoken : t.token # token}

\* delete(access_token), of a persisted access token: delete, commit
access_token_delete(token) ==
    /\ \E t \in accesstoken : t.token = token
    /\ IF Deactive
       THEN /\ last' = [op |-> "access_token.delete", arg |-> [token |-> token],
                        result |-> PendingRollback]
            /\ UNCHANGED accesstoken
       ELSE /\ accesstoken' = AccessTokensWithout(token)
            /\ last' = [op |-> "access_token.delete", arg |-> [token |-> token],
                        result |-> NoneResult]
    /\ UNCHANGED <<user, oauthaccount, accessrefreshtoken,
                 oauth_account_model, dialect>>
    /\ TransactionAfter
    /\ Awaited

-----------------------------------------------------------------------------
(* SQLModelAccessRefreshTokenDatabase: the access token adapter over the     *)
(* "accessrefreshtoken" table, whose rows also carry a refresh token        *)

\* The arguments of get_by_refresh_token: max_age given or left to None
GetByRefreshTokenArgs ==
    [refresh_token : RefreshTokens]
        \cup [refresh_token : RefreshTokens, max_age : Times]

\* The create_dict arguments of create, with created_at given or not
AccessRefreshTokenCreateDicts ==
    [token : Tokens, user_id : UserIds, refresh_token : RefreshTokens]
        \cup [token : Tokens, user_id : UserIds, refresh_token : RefreshTokens,
              created_at : Times]

\* (mutant) the age comparison made strict
RefreshTokenMatches_Exclusive(a) ==
    {t \in accessrefreshtoken :
        /\ t.refresh_token = a.refresh_token
        /\ HasField(a, "max_age") => t.created_at > a.max_age}

\* the rows get_by_refresh_token selects: where(refresh_token ==
\* refresh_token), and with a max_age where(created_at >= max_age)
RefreshTokenMatches(a) ==
    {t \in accessrefreshtoken :
        /\ t.refresh_token = a.refresh_token
        /\ HasField(a, "max_age") => t.created_at >= a.max_age}

\* get_by_refresh_token(refresh_token, max_age)
get_by_refresh_token(a) ==
    /\ IF Deactive
       THEN last' = [op |-> "get_by_refresh_token", arg |-> a, result |-> PendingRollback]
       ELSE
       \/ \E t \in RefreshTokenMatches(a) :
              last' = [op |-> "get_by_refresh_token", arg |-> a,
                       result |-> TokenResult(t)]
       \/ /\ RefreshTokenMatches(a) = {}
          /\ last' = [op |-> "get_by_refresh_token", arg |-> a,
                      result |-> NoneResult]
    /\ UNCHANGED <<tables, oauth_account_model, dialect>>
    /\ TransactionAfter
    /\ Awaited

\* access_token_model(**create_dict) of the refresh token model
NewAccessRefreshToken(d, now) ==
    [token |-> d.token, user_id |-> d.user_id, refresh_token |-> d.refresh_token,
     created_at |-> IF HasField(d, "created_at") THEN d.created_at ELSE now]

\* unique index of the refresh_token column
RefreshTokenUniqueViolation(rows, refresh_token) ==
    \E t \in rows : t.refresh_token = refresh_token

\* create(create_dict) of an access token with a refresh token: add, commit,
\* refresh
access_refresh_token_create(d) ==
    /\ IF Deactive
       THEN /\ last' = [op |-> "access_refresh_token.create", arg |-> d,
                        result |-> PendingRollback]
            /\ UNCHANGED accessrefreshtoken
       ELSE IF
          \/ TokenPrimaryKeyViolation(accessrefreshtoken, d.token)
          \/ RefreshTokenUniqueViolation(accessrefreshtoken, d.refresh_token)
          \/ TokenForeignKeyViolation(d.user_id)
       THEN /\ last' = [op |-> "access_refresh_token.create", arg |-> d,
                        result |-> Raise("IntegrityError")]
            /\ UNCHANGED accessrefreshtoken
       ELSE \E now \in Times :
                /\ accessrefreshtoken' =
                       accessrefreshtoken \cup {NewAccessRefreshToken(d, now)}
                /\ last' = [op |-> "access_refresh_token.create", arg |-> d,
                            result |-> TokenResult(NewAccessRefreshToken(d, now))]
    /\ UNCHANGED <<user, oauthaccount, accesstoken, oauth_account_model, dialect>>
    /\ TransactionAfter
    /\ Awaited

-----------------------------------------------------------------------------
(* SQLModelUserDatabaseAsync, BaseSQLModelAccessTokenDatabaseAsync and      *)
(* SQLModelAccessRefreshTokenDatabaseAsync: the adapters over an            *)
(* AsyncSession.  Each call is awaited to its end before the next one, and  *)
(* records in "last" what the blocking adapter's call of that name records. *)

\* (mutant) a result that has no rows
Execute_NoRows(rows) == {}

\* await session.execute(statement): the result's rows are Row tuples of one
\* entity each (session.exec of the blocking adapter gives the entities)
Execute(rows) == {<<r>> : r \in rows}

\* object[0]: the entity of a Row
RowEntity(row) == row[1]

\* await session.get(user_model, id)
Async_get(id) ==
    /\ last' = [op |-> "get", arg |-> [id |-> id],
                result |-> IF Deactive THEN PendingRollback ELSE SessionGet(id)]
    /\ UNCHANGED <<tables, oauth_account_model, dialect>>
    /\ TransactionAfter
    /\ Awaited

\* get_by_email(email): execute, first(), object[0]
Async_get_by_email(email) ==
    /\ IF Deactive
       THEN last' = [op |-> "get_by_email", arg |-> [email |-> email],
                     result |-> PendingRollback]
       ELSE
       \/ \E object \in Execute(EmailMatches(email)) :
              last' = [op |-> "get_by_email", arg |-> [email |-> email],
                       result |-> UserResult(RowEntity(object),
                                             oauth_accounts(RowEntity(object).id))]
       \/ /\ Execute(EmailMatches(email)) = {}
          /\ last' = [op |-> "get_by_email", arg |-> [email |-> email],
                      result |-> NoneResult]
    /\ UNCHANGED <<tables, oauth_account_model, dialect>>
    /\ TransactionAfter
    /\ Awaited

\* get_by_oauth_account(oauth, account_id): execute with
\* selectinload(oauth_account_model.user), first(), oauth_account[0].user
Async_get_by_oauth_account(oauth, account_id) ==
    /\ IF OAuthTableNotSet
       THEN last' = [op |-> "get_by_oauth_account",
                     arg |-> [oauth |-> oauth, account_id |-> account_id],
                     result |-> Raise("NotImplementedError")]
       ELSE IF Deactive
       THEN last' = [op |-> "get_by_oauth_account",
                     arg |-> [oauth |-> oauth, account_id |-> account_id],
                     result |-> PendingRollback]
       ELSE \/ \E oauth_account \in Execute(OAuthMatches(oauth, account_id)) :
                  last' = [op |-> "get_by_oauth_account",
                           arg |-> [oauth |-> oauth, account_id |-> account_id],
                           result |-> SessionGet(RowEntity(oauth_account).user_id)]
            \/ /\ Execute(OAuthMatches(oauth, account_id)) = {}
               /\ last' = [op |-> "get_by_oauth_account",
                           arg |-> [oauth |-> oauth, account_id |-> account_id],
                           result |-> NoneResult]
    /\ UNCHANGED <<tables, oauth_account_model, dialect>>
    /\ TransactionAfter
    /\ Awaited

\* create(create_dict): add, await commit, await refresh
Async_create(d) ==
    /\ IF Deactive
       THEN /\ last' = [op |-> "create", arg |-> d, result |-> PendingRollback]
            /\ UNCHANGED user
       ELSE IF \/ UserInsertViolation(d)
               \/ (HasField(d, "id") /\ UserPrimaryKeyViolation(user, d.id))
       THEN /\ last' = [op |-> "create", arg |-> d, result |-> Raise("IntegrityError")]
            /\ UNCHANGED user
       ELSE \E id \in (IF HasField(d, "id") THEN {d.id}
                       ELSE {i \in UserIds : ~UserPrimaryKeyViolation(user, i)}) :
                /\ user' = user \cup {NewUser(d, id)}
                /\ last' = [op |-> "create", arg |-> d,
                            result |-> UserResult(NewUser(d, id), {})]
    /\ UNCHANGED <<oauthaccount, accesstoken, accessrefreshtoken,
                   oauth_account_model, dialect>>
    /\ TransactionAfter
    /\ Awaited

\* update(user, update_dict): setattr, add, await commit, await refresh
Async_update(uid, d) ==
    /\ IF ~\E r \in user : r.id = uid
       THEN /\ last' = [op |-> "update", arg |-> [id |-> uid, update_dict |-> d],
                        result |-> Raise("InvalidRequestError")]
            /\ UNCHANGED user
       ELSE IF Deactive
       THEN /\ last' = [op |-> "update", arg |-> [id |-> uid, update_dict |-> d],
                        result |-> PendingRollback]
            /\ UNCHANGED user
       ELSE LET r == CHOOSE x \in user : x.id = uid
                n == UpdatedUser(r, d)
            IN  IF UserEmailUniqueViolation(user \ {r}, n.email)
                THEN /\ last' = [op |-> "update",
                                 arg |-> [id |-> uid, update_dict |-> d],
                                 result |-> Raise("IntegrityError")]
                     /\ UNCHANGED user
                ELSE /\ user' = (user \ {r}) \cup {n}
                     /\ last' = [op |-> "update",
                                 arg |-> [id |-> uid, update_dict |-> d],
                                 result |-> UserResult(n, oauth_accounts(uid))]
    /\ UNCHANGED <<oauthaccount, accesstoken, accessrefreshtoken,
                   oauth_account_model, dialect>>
    /\ TransactionAfter
    /\ Awaited

\* delete(user), of a persisted user: await delete, await commit
Async_delete(uid) ==
    /\ \E r \in user : r.id = uid
    /\ IF Deactive
       THEN /\ last' = [op |-> "delete", arg |-> [id |-> uid],
                        result |-> PendingRollback]
            /\ UNCHANGED <<user, oauthaccount>>
       ELSE IF UserDeleteViolation(uid)
       THEN /\ last' = [op |-> "delete", arg |-> [id |-> uid],
                        result |-> Raise("IntegrityError")]
            /\ UNCHANGED <<user, oauthaccount>>
       ELSE /\ user' = UsersWithout(uid)
            /\ oauthaccount' = oauthaccount \ DeleteCascade(uid)
            /\ last' = [op |-> "delete", arg |-> [id |-> uid], result |-> NoneResult]
    /\ UNCHANGED <<accesstoken, accessrefreshtoken, oauth_account_model, dialect>>
    /\ TransactionAfter
    /\ Awaited

\* add_oauth_account(user, create_dict): append, add, await commit
Async_add_oauth_account(uid, d) ==
    /\ IF OAuthTableNotSet
       THEN /\ last' = [op |-> "add_oauth_account",
                        arg |-> [id |-> uid, create_dict |-> d],
                        result |-> Raise("NotImplementedError")]
            /\ UNCHANGED oauthaccount
       ELSE IF ~\E r \in user : r.id = uid
       THEN /\ last' = [op |-> "add_oauth_account",
                        arg |-> [id |-> uid, create_dict |-> d],
                        result |-> Raise("InvalidRequestError")]
            /\ UNCHANGED oauthaccount
       ELSE IF Deactive
       THEN /\ last' = [op |-> "add_oauth_account",
                        arg |-> [id |-> uid, create_dict |-> d],
                        result |-> PendingRollback]
            /\ UNCHANGED oauthaccount
       ELSE \E id \in FreshOAuthIds :
                /\ oauthaccount' = oauthaccount \cup {NewOAuthAccount(d, id, uid)}
                /\ last' = [op |-> "add_oauth_account",
                            arg |-> [id |-> uid, create_dict |-> d],
                            result |-> UserResult(CHOOSE r \in user : r.id = uid,
                                                  oauth_accounts(uid)
                                                      \cup {NewOAuthAccount(d, id, uid)})]
    /\ UNCHANGED <<user, accesstoken, accessrefreshtoken,
                   oauth_account_model, dialect>>
    /\ TransactionAfter
    /\ Awaited

\* update_oauth_account(user, oauth_account, update_dict): setattr, add,
\* await commit
Async_update_oauth_account(uid, aid, d) ==
    /\ IF OAuthTableNotSet
       THEN /\ last' = [op |-> "update_oauth_account",
                        arg |-> [id |-> uid, oauth_account |-> aid, update_dict |-> d],
                        result |-> Raise("NotImplementedError")]
            /\ UNCHANGED oauthaccount
       ELSE IF ~\E a \in oauthaccount : a.id = aid
       THEN /\ last' = [op |-> "update_oauth_account",
                        arg |-> [id |-> uid, oauth_account |-> aid, update_dict |-> d],
                        result |-> Raise("InvalidRequestError")]
            /\ UNCHANGED oauthaccount
       ELSE IF Deactive
       THEN /\ last' = [op |-> "update_oauth_account",
                        arg |-> [id |-> uid, oauth_account |-> aid, update_dict |-> d],
                        result |-> PendingRollback]
            /\ UNCHANGED oauthaccount
       ELSE LET a == CHOOSE x \in oauthaccount : x.id = aid
                n == UpdatedOAuthAccount(a, d)
                after == (oauthaccount \ {a}) \cup {n}
            IN  /\ \E r \in user : r.id = uid
                /\ oauthaccount' = after
                /\ last' = [op |-> "update_oauth_account",
                            arg |-> [id |-> uid, oauth_account |-> aid,
                                     update_dict |-> d],
                            result |-> UserResult(CHOOSE r \in user : r.id = uid,
                                                  {x \in after : x.user_id = uid})]
    /\ UNCHANGED <<user, accesstoken, accessrefreshtoken,
                   oauth_account_model, dialect>>
    /\ TransactionAfter
    /\ Awaited

\* get_by_token(token, max_age): await execute, first(), access_token[0]
Async_get_by_token(a) ==
    /\ IF Deactive
       THEN last' = [op |-> "get_by_token", arg |-> a, result |-> PendingRollback]
       ELSE
       \/ \E access_token \in Execute(TokenMatches(a)) :
              last' = [op |-> "get_by_token", arg |-> a,
                       result |-> TokenResult(RowEntity(access_token))]
       \/ /\ Execute(TokenMatches(a)) = {}
          /\ last' = [op |-> "get_by_token", arg |-> a, result |-> NoneResult]
    /\ UNCHANGED <<tables, oauth_account_model, dialect>>
    /\ TransactionAfter
    /\ Awaited

\* get_by_refresh_token(refresh_token, max_age): await execute, first(),
\* access_token[0]
Async_get_by_refresh_token(a) ==
    /\ IF Deactive
       THEN last' = [op |-> "get_by_refresh_token", arg |-> a, result |-> PendingRollback]
       ELSE
       \/ \E access_token \in Execute(RefreshTokenMatches(a)) :
              last' = [op |-> "get_by_refresh_token", arg |-> a,
                       result |-> TokenResult(RowEntity(access_token))]
       \/ /\ Execute(RefreshTokenMatches(a)) = {}
          /\ last' = [op |-> "get_by_refresh_token", arg |-> a,
                      result |-> NoneResult]
    /\ UNCHANGED <<tables, oauth_account_model, dialect>>
    /\ TransactionAfter
    /\ Awaited

-----------------------------------------------------------------------------
(* Two tasks calling create on one SQLModelUserDatabaseAsync, that is on    *)
(* one AsyncSession.  A task runs from one await to the next: it adds its   *)
(* user to the session, awaits the commit, awaits the refresh.  Each of the *)
(* three takes effect at once; the other task may run between them.         *)

\* The create_dict arguments of a task: its own id, an email of the tests or
\* none
TaskCreateDicts(t) ==
    [id : {t}, email : {<<"l", "a">>, <<"g", "a">>}, hashed_password : Passwords]
        \cup [id : {t}, hashed_password : Passwords]

\* the flush of the objects pending in the session fails: a NULL in a NOT
\* NULL column, a stored key or email, or two pending users with one email
FlushViolation(pending) ==
    \E o \in pending :
        \/ o.email = NoneEmail
        \/ o.hashed_password = NonePassword
        \/ UserPrimaryKeyViolation(user, o.id)
        \/ UserEmailUniqueViolation(user, o.email)
        \/ UserEmailUniqueViolation(pending \ {o}, o.email)

\* user = user_model(**create_dict); session.add(user)
create_add(t, d) ==
    /\ task[t].pc = "idle"
    /\ session_new' = session_new \cup {NewUser(d, d.id)}
    /\ task' = [task EXCEPT ![t] = [pc |-> "commit", arg |-> d]]
    /\ UNCHANGED <<tables, oauth_account_model, dialect, transaction, last>>

\* await session.commit(): the flush inserts every object pending in the
\* session, whichever task added it; when it fails the transaction is rolled
\* back, the pending objects are expunged and the error is raised in the task
\* that awaits this commit
create_commit(t) ==
    /\ task[t].pc = "commit"
    /\ IF Deactive
       THEN /\ task' = [task EXCEPT ![t] = [pc |-> "done", arg |-> task[t].arg,
                                            result |-> PendingRollback]]
            /\ last' = [op |-> "create", arg |-> task[t].arg,
                        result |-> PendingRollback]
            /\ UNCHANGED <<user, session_new, transaction>>
       ELSE IF FlushViolation(session_new)
       THEN /\ task' = [task EXCEPT ![t] = [pc |-> "done", arg |-> task[t].arg,
                                            result |-> Raise("IntegrityError")]]
            /\ last' = [op |-> "create", arg |-> task[t].arg,
                        result |-> Raise("IntegrityError")]
            /\ session_new' = {}
            /\ transaction' = "DEACTIVE"
            /\ UNCHANGED user
       ELSE /\ user' = user \cup session_new
            /\ session_new' = {}
            /\ task' = [task EXCEPT ![t] = [pc |-> "refresh", arg |-> task[t].arg]]
            /\ UNCHANGED <<transaction, last>>
    /\ UNCHANGED <<oauthaccount, accesstoken, accessrefreshtoken,
                   oauth_account_model, dialect>>

\* await session.refresh(user); return user
create_refresh(t) ==
    /\ task[t].pc = "refresh"
    /\ LET result == IF Deactive THEN PendingRollback
                     ELSE SessionGet(task[t].arg.id)
       IN  /\ task' = [task EXCEPT ![t] = [pc |-> "done", arg |-> task[t].arg,
                                           result |-> result]]
           /\ last' = [op |-> "create", arg |-> task[t].arg, result |-> result]
    /\ UNCHANGED <<tables, oauth_account_model, dialect, transaction, session_new>>

\* create(create_dict) awaited to its end on given rows and a given state of
\* the session's transaction: what it returns or raises, and what it leaves
CreateOutcome(rows, deactive, d) ==
    IF deactive
    THEN [result |-> PendingRollback, rows |-> rows, deactive |-> TRUE]
    ELSE IF \/ UserNotNullViolation(d)
            \/ UserPrimaryKeyViolation(rows, d.id)
            \/ UserEmailUniqueViolation(rows, d.email)
    THEN [result |-> Raise("IntegrityError"), rows |-> rows, deactive |-> TRUE]
    ELSE [result |-> UserResult(NewUser(d, d.id), {}),
          rows |-> rows \cup {NewUser(d, d.id)}, deactive |-> FALSE]

-----------------------------------------------------------------------------
(* Specifications *)

Constructed(models, dialects) ==
    /\ user = {}
    /\ oauthaccount = {}
    /\ accesstoken = {}
    /\ accessrefreshtoken = {}
    /\ transaction = "ACTIVE"
    /\ session_new = {}
    /\ task = [t \in Tasks |-> [pc |-> "idle"]]
    /\ oauth_account_model \in models
    /\ dialect \in dialects
    /\ last = [op |-> "__init__", arg |-> [oauth_account_model |-> oauth_account_model],
               result |-> NoneResult]

\* The user adapter without an OAuth table, as the tests build it
Init == Constructed({"None"}, {"sqlite"})

Next ==
    \/ \E id \in UserIds : get(id)
    \/ \E e \in Emails : get_by_email(e)
    \/ \E d \in UserCreateDicts : create(d)
    \/ \E u \in UserIds, d \in UserUpdateDicts : update(u, d)
    \/ \E u \in UserIds : delete(u)

Spec == Init /\ [][Next]_vars

\* The users of the OAuth account and access token calls: created with their id given, the
\* user with id i under the i-th email address
FixtureEmails == <<<<"l", "a">>, <<"g", "a">>, <<"L", "a">>>>

FixtureUsers ==
    {d \in [id : UserIds, email : Emails, hashed_password : Passwords] :
        d.email = FixtureEmails[((d.id - 1) % Len(FixtureEmails)) + 1]}

\* The user adapter built with and without an OAuth table over one session,
\* and two users to give OAuth accounts to
OAuthUserIds == {1, 2}
OAuthUsers == {d \in FixtureUsers : d.id \in OAuthUserIds}

InitOAuth == Constructed({"None", "OAuthAccount"}, {"sqlite"})

NextOAuth ==
    \/ \E m \in {"None", "OAuthAccount"} : Construct(m)
    \/ \E d \in OAuthUsers : create(d)
    \/ \E u \in OAuthUserIds : delete(u)
    \/ \E o \in OAuthNames, a \in AccountIds : get_by_oauth_account(o, a)
    \/ \E u \in OAuthUserIds, d \in OAuthCreateDicts : add_oauth_account(u, d)
    \/ \E u \in OAuthUserIds, a \in OAuthIds, d \in OAuthUpdateDicts :
           update_oauth_account(u, a, d)

SpecOAuth == InitOAuth /\ [][NextOAuth]_vars

\* The user adapter and the access token adapter over one session, on a
\* backing store that enforces foreign keys or does not
InitToken == Constructed({"None"}, {"sqlite", "postgresql"})

NextToken ==
    \/ \E id \in UserIds : get(id)
    \/ \E d \in FixtureUsers : create(d)
    \/ \E u \in UserIds, d \in [is_superuser : BOOLEAN] : update(u, d)
    \/ \E u \in UserIds : delete(u)
    \/ \E a \in GetByTokenArgs : get_by_token(a)
    \/ \E d \in AccessTokenCreateDicts : access_token_create(d)
    \/ \E t \in Tokens, d \in AccessTokenUpdateDicts : access_token_update(t, d)
    \/ \E t \in Tokens : access_token_delete(t)

SpecToken == InitToken /\ [][NextToken]_vars

\* The blocking and the non-blocking adapters over one backing store: each
\* call is made through the one or through the other.  Two users whose
\* emails differ in letter case, the OAuth accounts of the tests on the
\* first user, and one access token of each model.
AsyncUsers ==
    {[id |-> 1, email |-> <<"l", "a">>, hashed_password |-> "guinevere"],
     [id |-> 2, email |-> <<"L", "a">>, hashed_password |-> "guinevere"]}
AsyncOAuthCreateDicts ==
    {[oauth_name |-> "service1", account_id |-> "user_oauth1"],
     [oauth_name |-> "service2", account_id |-> "user_oauth2"]}
AsyncTokenCreateDicts == [token : {"TOKEN"}, user_id : {1}]
AsyncRefreshTokenCreateDicts ==
    [token : {"TOKEN"}, user_id : {1}, refresh_token : {"REFRESH"}]

InitAsync == Constructed({"None", "OAuthAccount"}, {"sqlite"})

NextAsync ==
    \/ \E id \in {1, 2} : get(id)
    \/ \E id \in {1, 2} : Async_get(id)
    \/ \E e \in Emails : get_by_email(e)
    \/ \E e \in Emails : Async_get_by_email(e)
    \/ \E d \in AsyncUsers : create(d)
    \/ \E d \in AsyncUsers : Async_create(d)
    \/ \E d \in [is_superuser : BOOLEAN] : update(1, d)
    \/ \E d \in [is_superuser : BOOLEAN] : Async_update(1, d)
    \/ \E u \in {1, 2} : delete(u)
    \/ \E u \in {1, 2} : Async_delete(u)
    \/ \E o \in OAuthNames, a \in AccountIds : get_by_oauth_account(o, a)
    \/ \E o \in OAuthNames, a \in AccountIds : Async_get_by_oauth_account(o, a)
    \/ \E d \in AsyncOAuthCreateDicts : add_oauth_account(1, d)
    \/ \E d \in AsyncOAuthCreateDicts : Async_add_oauth_account(1, d)
    \/ \E d \in [account_id : AccountIds] : update_oauth_account(1, 1, d)
    \/ \E d \in [account_id : AccountIds] : Async_update_oauth_account(1, 1, d)
    \/ \E d \in AsyncTokenCreateDicts : access_token_create(d)
    \/ \E d \in AsyncRefreshTokenCreateDicts : access_refresh_token_create(d)
    \/ \E a \in GetByTokenArgs : get_by_token(a)
    \/ \E a \in GetByTokenArgs : Async_get_by_token(a)
    \/ \E a \in GetByRefreshTokenArgs : get_by_refresh_token(a)
    \/ \E a \in GetByRefreshTokenArgs : Async_get_by_refresh_token(a)

SpecAsync == InitAsync /\ [][NextAsync]_vars

\* The user adapter over the user model of the tests, created with and
\* without its first_name and its flags
CustomCreateDicts ==
    [email : Emails, hashed_password : Passwords]
        \cup [email : Emails, hashed_password : Passwords, first_name : FirstNames]
        \cup [email : Emails, hashed_password : Passwords,
              is_active : BOOLEAN, is_superuser : BOOLEAN]

NextCustom ==
    \/ \E d \in CustomCreateDicts : create(d)
    \/ \E id \in UserIds : get(id)
    \/ \E u \in UserIds : delete(u)

SpecCustom == Init /\ [][NextCustom]_vars

\* The access token adapter and the access refresh token adapter over one
\* session: one token of each model, created at any time
MaxAgeTokenCreateDicts == [token : {"TOKEN"}, user_id : {1}, created_at : Times]
MaxAgeRefreshTokenCreateDicts ==
    [token : {"TOKEN"}, user_id : {1}, refresh_token : RefreshTokens,
     created_at : Times]

NextMaxAge ==
    \/ \E d \in MaxAgeTokenCreateDicts : access_token_create(d)
    \/ \E t \in {"TOKEN"} : access_token_delete(t)
    \/ \E d \in MaxAgeRefreshTokenCreateDicts : access_refresh_token_create(d)
    \/ \E a \in GetByTokenArgs : get_by_token(a)
    \/ \E a \in GetByRefreshTokenArgs : get_by_refresh_token(a)

SpecMaxAge == Init /\ [][NextMaxAge]_vars

\* Two tasks, each making one create call on the same adapter
NextShared ==
    \/ \E t \in Tasks : \E d \in TaskCreateDicts(t) : create_add(t, d)
    \/ \E t \in Tasks : create_commit(t)
    \/ \E t \in Tasks : create_refresh(t)

SpecShared == Init /\ [][NextShared]_vars

-----------------------------------------------------------------------------
(* Properties *)

\* Two emails are the same ignoring letter case: the same length, and at
\* each place the same character or the two cases of one letter
CasePairs == {{"l", "L"}, {"g", "G"}, {"a", "A"}}

SameIgnoringCase(e1, e2) ==
    /\ Len(e1) = Len(e2)
    /\ \A i \in 1..Len(e1) : e1[i] = e2[i] \/ {e1[i], e2[i]} \in CasePairs

\* C1: a user create call whose email equals the email of a stored user,
\* made on a session whose transaction is active, raises the uniqueness
\* violation (IntegrityError), returns no record and leaves the "user" table
\* as it was.
C1_DuplicateEmailRejected ==
    [][(/\ last'.op = "create"
        /\ transaction = "ACTIVE"
        /\ HasField(last'.arg, "email")
        /\ \E r \in user : r.email = last'.arg.email)
       => (last'.result.kind = "IntegrityError" /\ user' = user)]_vars

\* C1 witness: a create with no id given and the email of a stored user
\* has raised IntegrityError.
C1_Witness ==
    /\ last.op = "create"
    /\ last.result.kind = "IntegrityError"
    /\ ~HasField(last.arg, "id")
    /\ HasField(last.arg, "email") /\ HasField(last.arg, "hashed_password")
    /\ \E r \in user : r.email = last.arg.email

\* C2 (as claimed): no two stored users have emails that are equal ignoring
\* letter case.
C2_EmailUniqueIgnoringCase ==
    \A r1, r2 \in user : SameIgnoringCase(r1.email, r2.email) => r1 = r2

\* C3: on a session whose transaction is active, get_by_email returns a
\* stored user whose email equals the argument
\* ignoring letter case when there is one, and None exactly when there is
\* none.
C3_GetByEmailIgnoresCase ==
    (last.op = "get_by_email" /\ transaction = "ACTIVE") =>
        LET same == {r \in user : SameIgnoringCase(r.email, last.arg.email)}
        IN  /\ same # {} => (last.result.kind = "user" /\ last.result.user \in same)
            /\ last.result.kind = "None" <=> same = {}

\* C3 witness: get_by_email has found a user whose stored email differs
\* from the argument in letter case.
C3_Witness ==
    /\ last.op = "get_by_email"
    /\ last.result.kind = "user"
    /\ last.result.user.email # last.arg.email

\* C4: read-after-delete returns absent, for users and for access tokens.
\* Once delete(record) has returned, no row with the record's key is stored;
\* a key with no stored row gets one only by a create call that returns a
\* record with that key; and get(id) (get_by_token(token), with or without
\* max_age) of a key with no stored row, on a session whose transaction is
\* active, returns None.
NoUser(rows, id) == ~\E r \in rows : r.id = id
NoAccessToken(rows, token) == ~\E t \in rows : t.token = token

C4_ReadAfterDelete ==
    [][/\ \A id \in UserIds :
            /\ (/\ last'.op = "delete"
                /\ last'.result.kind = "None"
                /\ last'.arg.id = id) => NoUser(user', id)
            /\ (/\ NoUser(user, id)
                /\ ~(/\ last'.op = "create"
                     /\ last'.result.kind = "user"
                     /\ last'.result.user.id = id)) => NoUser(user', id)
            /\ (/\ last'.op = "get"
                /\ transaction = "ACTIVE"
                /\ last'.arg.id = id
                /\ NoUser(user', id)) => last'.result.kind = "None"
       /\ \A token \in Tokens :
            /\ (/\ last'.op = "access_token.delete"
                /\ last'.result.kind = "None"
                /\ last'.arg.token = token) => NoAccessToken(accesstoken', token)
            /\ (/\ NoAccessToken(accesstoken, token)
                /\ ~(/\ last'.op = "access_token.create"
                     /\ last'.result.kind = "access_token"
                     /\ last'.result.access_token.token = token))
                    => NoAccessToken(accesstoken', token)
            /\ (/\ last'.op = "get_by_token"
                /\ transaction = "ACTIVE"
                /\ last'.arg.token = token
                /\ NoAccessToken(accesstoken', token)) => last'.result.kind = "None"
      ]_vars

\* C4 witness: delete(user) has returned for a user that owned an access
\* token, and the user's row is gone.
C4_Witness ==
    /\ last.op = "delete"
    /\ last.result.kind = "None"
    /\ NoUser(user, last.arg.id)
    /\ \E t \in accesstoken : t.user_id = last.arg.id

C6_MaxAge ==
    (last.op = "get_by_token" /\ transaction = "ACTIVE") =>
        \A t \in accesstoken :
            t.token = last.arg.token =>
                /\ ~HasField(last.arg, "max_age") => last.result = TokenResult(t)
                /\ HasField(last.arg, "max_age") =>
                       /\ last.arg.max_age > t.created_at => last.result.kind = "None"
                       /\ last.arg.max_age < t.created_at => last.result = TokenResult(t)

\* C6 witness: get_by_token has returned None for a stored token whose
\* creation time is before the max_age given.
C6_Witness ==
    /\ last.op = "get_by_token"
    /\ HasField(last.arg, "max_age")
    /\ last.result.kind = "None"
    /\ \E t \in accesstoken :
           t.token = last.arg.token /\ t.created_at < last.arg.max_age

\* C7: creating an access token whose token string is already stored, on a
\* session whose transaction is active, raises
\* the uniqueness violation (IntegrityError) and leaves the table as it was,
\* and at most one stored access token has a given token string.
C7_TokenUnique ==
    [][/\ (/\ last'.op = "access_token.create"
           /\ transaction = "ACTIVE"
           /\ \E t \in accesstoken : t.token = last'.arg.token)
          => (last'.result.kind = "IntegrityError" /\ accesstoken' = accesstoken)
       /\ \A t1, t2 \in accesstoken' : t1.token = t2.token => t1 = t2
      ]_vars

\* C7 witness: on a store that does not enforce foreign keys, a create with
\* a stored token string has raised IntegrityError.
C7_Witness ==
    /\ last.op = "access_token.create"
    /\ last.result.kind = "IntegrityError"
    /\ dialect = "sqlite"
    /\ \E t \in accesstoken : t.token = last.arg.token

\* C8: on an adapter built with an OAuth table, over a session whose
\* transaction is active, get_by_oauth_account returns
\* the user owning a stored OAuth account whose provider name and account id
\* both equal the arguments, and None when no stored account matches both.
C8_GetByOAuthAccount ==
    (/\ last.op = "get_by_oauth_account"
     /\ oauth_account_model # "None"
     /\ transaction = "ACTIVE") =>
        LET both == {a \in oauthaccount :
                        /\ a.oauth_name = last.arg.oauth
                        /\ a.account_id = last.arg.account_id}
        IN  /\ both # {} =>
                  /\ last.result.kind = "user"
                  /\ last.result.user \in user
                  /\ \E a \in both : a.user_id = last.result.user.id
            /\ both = {} => last.result.kind = "None"

\* C8 witness: get_by_oauth_account has returned the owner of the matching
\* account while another user owns an account that matches in the provider
\* name only.
C8_Witness ==
    /\ last.op = "get_by_oauth_account"
    /\ last.result.kind = "user"
    /\ \E a \in oauthaccount :
           /\ a.oauth_name = last.arg.oauth
           /\ a.account_id # last.arg.account_id
           /\ a.user_id # last.result.user.id

\* C9 (as claimed): at most one stored OAuth account has a given
\* (provider name, account id) pair.
C9_OAuthAccountUnique ==
    \A a1, a2 \in oauthaccount :
        (a1.oauth_name = a2.oauth_name /\ a1.account_id = a2.account_id) => a1 = a2

\* C10 (as claimed): every stored OAuth account and every stored access
\* token references a stored user.
C10_ReferentialIntegrity ==
    /\ \A a \in oauthaccount : \E r \in user : r.id = a.user_id
    /\ \A t \in accesstoken : \E r \in user : r.id = t.user_id

\* C11: after a successful update, of a user or of an access token, the
\* record returned holds the new value of every field named in update_dict
\* and the previous value of every other field, and it is the one row
\* stored under its key, which a following get returns.
C11_UpdateReflectsChanges ==
    [][/\ (last'.op = "update" /\ last'.result.kind = "user") =>
            LET d == last'.arg.update_dict
                new == last'.result.user
            IN  /\ \E old \in user :
                       /\ old.id = last'.arg.id
                       /\ new.id = old.id
                       /\ \A f \in {"email", "hashed_password", "is_active",
                                    "is_superuser", "first_name"} :
                              new[f] = IF HasField(d, f) THEN d[f] ELSE old[f]
                /\ {r \in user' : r.id = last'.arg.id} = {new}
       /\ (last'.op = "access_token.update"
             /\ last'.result.kind = "access_token") =>
            LET d == last'.arg.update_dict
                new == last'.result.access_token
            IN  /\ \E old \in accesstoken :
                       /\ old.token = last'.arg.token
                       /\ new.token = old.token
                       /\ \A f \in {"created_at", "user_id"} :
                              new[f] = IF HasField(d, f) THEN d[f] ELSE old[f]
                /\ {t \in accesstoken' : t.token = last'.arg.token} = {new}
      ]_vars

\* C11 witness: update(user, {"is_superuser": True}) has returned a user
\* that was not a superuser, and the stored row is a superuser's.
C11_Witness ==
    /\ last.op = "update"
    /\ last.result.kind = "user"
    /\ last.arg.update_dict = [is_superuser |-> TRUE]
    /\ last.result.user.is_superuser
    /\ last.result.user \in user

C13_RequiredFields ==
    [][(/\ last'.op = "create"
        /\ transaction = "ACTIVE"
        /\ \/ ~HasField(last'.arg, "email")
           \/ ~HasField(last'.arg, "hashed_password")
           \/ last'.arg.email = NoneEmail)
       => (last'.result.kind = "IntegrityError" /\ user' = user)]_vars

\* C13 witness: a create with None for the email, and no stored user that a
\* uniqueness violation could come from, has raised IntegrityError.
C13_Witness ==
    /\ last.op = "create"
    /\ HasField(last.arg, "email") /\ last.arg.email = NoneEmail
    /\ HasField(last.arg, "hashed_password")
    /\ last.result.kind = "IntegrityError"
    /\ user = {}

\* C14: create then get round-trips.  A successful create returns a record
\* with an id, the email and the first_name given, and, when the flags are
\* not given, is_active true and is_superuser false; the record is then the
\* one stored under that id, and get(id), while the transaction of the
\* session is active, returns the stored record of that id, with the same
\* values of all its fields.
C14_CreateGetRoundTrip ==
    [][/\ (last'.op = "create" /\ last'.result.kind = "user") =>
            LET d == last'.arg
                u == last'.result.user
            IN  /\ u.id \in UserIds
                /\ u.email = d.email
                /\ u.hashed_password = d.hashed_password
                /\ HasField(d, "first_name") => u.first_name = d.first_name
                /\ ~HasField(d, "is_active") => u.is_active = TRUE
                /\ ~HasField(d, "is_superuser") => u.is_superuser = FALSE
                /\ HasField(d, "is_active") => u.is_active = d.is_active
                /\ HasField(d, "is_superuser") => u.is_superuser = d.is_superuser
                /\ {r \in user' : r.id = u.id} = {u}
       /\ (/\ last'.op = "get"
           /\ transaction = "ACTIVE"
           /\ \E r \in user' : r.id = last'.arg.id) =>
            /\ last'.result.kind = "user"
            /\ last'.result.user.id = last'.arg.id
            /\ last'.result.user \in user'
      ]_vars

\* C14 witness: get(id) has returned a stored user that was created with a
\* first_name and without flags.
C14_Witness ==
    /\ last.op = "get"
    /\ last.result.kind = "user"
    /\ last.result.user.first_name = "Lancelot"
    /\ last.result.user.is_active
    /\ ~last.result.user.is_superuser

C16_UpdateOAuthAccountFrame ==
    [][(/\ last'.op = "update_oauth_account"
        /\ last'.result.kind = "user"
        /\ \E a \in oauth_accounts(last'.arg.id) : a.id = last'.arg.oauth_account) =>
          LET uid == last'.arg.id
              aid == last'.arg.oauth_account
              d == last'.arg.update_dict
              before == oauth_accounts(uid)
              after == last'.result.oauth_accounts
          IN  /\ \E old \in before, n \in after :
                    /\ old.id = aid /\ n.id = aid
                    /\ n.user_id = uid
                    /\ \A f \in {"oauth_name", "account_id"} :
                          n[f] = IF HasField(d, f) THEN d[f] ELSE old[f]
                    /\ ListIndex(n, after) = ListIndex(old, before)
              /\ Cardinality(after) = Cardinality(before)
              /\ {b \in after : b.id # aid} = {b \in before : b.id # aid}
              /\ {a \in oauthaccount' : a.user_id = uid} = after
              /\ {a \in oauthaccount' : a.id # aid} = {a \in oauthaccount : a.id # aid}
              /\ user' = user
      ]_vars

\* C16 witness: update_oauth_account has changed the account_id of one of
\* the two accounts of a user.
C16_Witness ==
    /\ last.op = "update_oauth_account"
    /\ last.result.kind = "user"
    /\ Cardinality(last.result.oauth_accounts) = 2
    /\ HasField(last.arg.update_dict, "account_id")
    /\ \E n \in last.result.oauth_accounts :
          /\ n.id = last.arg.oauth_account
          /\ n.account_id = last.arg.update_dict.account_id
          /\ \E b \in last.result.oauth_accounts :
                b.id # n.id /\ b.account_id # n.account_id

\* C17 (as claimed): a call that ends in a uniqueness or constraint violation
\* (IntegrityError) leaves the tables exactly as they were, and the adapter
\* stays usable: no later call is refused on account of the failed one, each
\* returning what it returns on the same tables had the failed call never
\* been made.
C17_FailedCallLeavesAdapterUsable ==
    [][/\ last'.result.kind = "IntegrityError" => tables' = tables
       /\ last'.result.kind = "PendingRollbackError" => transaction = "ACTIVE"
       /\ (last'.op = "get" /\ \E r \in user : r.id = last'.arg.id)
             => last'.result.kind = "user"
      ]_vars

C19_MaxAgeInclusive ==
    transaction = "ACTIVE" =>
        LET NotTooOld(t) ==
                \/ ~HasField(last.arg, "max_age")
                \/ t.created_at = last.arg.max_age
                \/ t.created_at > last.arg.max_age
        IN  /\ last.op = "get_by_token" =>
                /\ \A t \in accesstoken :
                      t.token = last.arg.token =>
                          (last.result = TokenResult(t) <=> NotTooOld(t))
                /\ last.result.kind = "None" <=>
                      ~\E t \in accesstoken :
                          t.token = last.arg.token /\ NotTooOld(t)
            /\ last.op = "get_by_refresh_token" =>
                /\ \A t \in accessrefreshtoken :
                      t.refresh_token = last.arg.refresh_token =>
                          (last.result = TokenResult(t) <=> NotTooOld(t))
                /\ last.result.kind = "None" <=>
                      ~\E t \in accessrefreshtoken :
                          t.refresh_token = last.arg.refresh_token /\ NotTooOld(t)

\* C19 witness: get_by_refresh_token has returned a token created exactly at
\* the max_age given.
C19_Witness ==
    /\ last.op = "get_by_refresh_token"
    /\ HasField(last.arg, "max_age")
    /\ last.result.kind = "access_token"
    /\ last.result.access_token.created_at = last.arg.max_age
    /\ last.result.access_token \in accessrefreshtoken

====
